---------------------------- MODULE Spec2Model ----------------------------
(***************************************************************************)
(* SmartMailr: the classify -> plan -> execute -> synthesize pipeline of   *)
(* smart_mailr_kaggle_notebook_git_hub_code.py.                            *)
(*                                                                         *)
(* A Python str is a tuple of one-character strings, so that `in`,         *)
(* lower(), splitlines(), strip(), join() and split('@') are computed      *)
(* character by character.  A dict is a function whose DOMAIN is its key   *)
(* set.  The wall clock is [sec, micro]: whole seconds since the epoch     *)
(* and the microsecond inside that second (local time taken as UTC).       *)
(***************************************************************************)
EXTENDS Integers, Sequences, FiniteSets, TLC

VARIABLES
    clock,      \* the wall clock read by time.time() and datetime.now()
    ticks,      \* how often the clock has advanced (bounded by MaxTicks)
    inbox,      \* inbox[m]: the Email being processed as message m
    pc,         \* pc[m]: where message m is in its processing
    plan,       \* plan[m]: the dict planner_agent returned
    stepIdx,    \* stepIdx[m]: index of the next plan step of the executor's loop
    context,    \* context[c]: the dict a Context object holds
    actions,    \* actions[m]: the executor's actions dict
    reply,      \* reply[m]: the executor's local `reply`
    results,    \* the messages whose result was handed over, in order
    mode,       \* "loop": the demo loop over the inbox; "parallel": requests to /process
    probe       \* one call of a pure agent function: its argument and result

vars == <<clock, ticks, inbox, pc, plan, stepIdx, context, actions, reply, results, mode, probe>>

-----------------------------------------------------------------------------
(* Bounds of the model.                                                    *)

MaxMsgs == 2

MaxTicks == 1

MaxQAFrags == 4

MaxBodyFrags == 2

MaxCueFrags == 2

-----------------------------------------------------------------------------
(* Python values.                                                          *)

None == [tag |-> "None"]

EmptyDict == [k \in {} |-> None]

\* The one member of a singleton.  A name bound by \in holds a value, as a Python
\* local does: The({F(x) : x \in {e}}) is F applied to the value of e.
The(S) == CHOOSE x \in S : TRUE

Get(d, k) == IF k \in DOMAIN d THEN d[k] ELSE None

\* dict.update(other) and {**d, **other}: the keys of `other` win.
Update(d, other) == other @@ d

\* A character is a one-character string when it is printable ASCII or one of
\* \t \n \f \r, and otherwise the string "U+" followed by its code point in
\* hexadecimal, four digits at least: "U+2014", "U+000B", "U+10400".  The grave
\* accent, which a TLA+ string cannot hold, is "U+0060".
HexDigits == <<"0", "1", "2", "3", "4", "5", "6", "7", "8", "9", "A", "B", "C", "D", "E", "F">>

RECURSIVE Hex(_, _)
Hex(n, width) ==
    IF n = 0 /\ width <= 0 THEN ""
    ELSE Hex(n \div 16, width - 1) \o HexDigits[(n % 16) + 1]

Ascii ==
    <<"U+0000", "U+0001", "U+0002", "U+0003", "U+0004", "U+0005", "U+0006", "U+0007",
      "U+0008", "\t", "\n", "U+000B", "\f", "\r", "U+000E", "U+000F", "U+0010", "U+0011",
      "U+0012", "U+0013", "U+0014", "U+0015", "U+0016", "U+0017", "U+0018", "U+0019",
      "U+001A", "U+001B", "U+001C", "U+001D", "U+001E", "U+001F", " ", "!", "\"", "#", "$",
      "%", "&", "'", "(", ")", "*", "+", ",", "-", ".", "/", "0", "1", "2", "3", "4", "5",
      "6", "7", "8", "9", ":", ";", "<", "=", ">", "?", "@", "A", "B", "C", "D", "E", "F",
      "G", "H", "I", "J", "K", "L", "M", "N", "O", "P", "Q", "R", "S", "T", "U", "V", "W",
      "X", "Y", "Z", "[", "\\", "]", "^", "_", "U+0060", "a", "b", "c", "d", "e", "f", "g", "h",
      "i", "j", "k", "l", "m", "n", "o", "p", "q", "r", "s", "t", "u", "v", "w", "x", "y",
      "z", "{", "|", "}", "~", "U+007F">>

\* chr(cp)
Chr(cp) == IF cp < 128 THEN Ascii[cp + 1] ELSE "U+" \o Hex(cp, 4)

\* U+2014 EM DASH, one character of the reply templates.
EmDash == "U+2014"

\* The code points first, first + step, ..., last of a run <<first, last, step, ...>>.
RunPoints(run) == {cp \in run[1]..run[2] : (cp - run[1]) % run[3] = 0}

RunChars(runs) == UNION {{Chr(cp) : cp \in RunPoints(run)} : run \in runs}

UpperCase ==
    <<"A", "B", "C", "D", "E", "F", "G", "H", "I", "J", "K", "L", "M", "N", "O", "P", "Q",
      "R", "S", "T", "U", "V", "W", "X", "Y", "Z">>

LowerCase ==
    <<"a", "b", "c", "d", "e", "f", "g", "h", "i", "j", "k", "l", "m", "n", "o", "p", "q",
      "r", "s", "t", "u", "v", "w", "x", "y", "z">>

\* The characters beyond ASCII that str.lower() maps to one other character, as
\* runs <<first, last, step, lower(first)>>: lower(first + k * step) is
\* lower(first) + k * step (Unicode 14.0, the character database of Python 3.11).
LowerRuns ==
    {<<\h00C0, \h00D6, 1, \h00E0>>, <<\h00D8, \h00DE, 1, \h00F8>>,
     <<\h0100, \h012E, 2, \h0101>>, <<\h0132, \h0136, 2, \h0133>>,
     <<\h0139, \h0147, 2, \h013A>>, <<\h014A, \h0176, 2, \h014B>>,
     <<\h0178, \h0178, 1, \h00FF>>, <<\h0179, \h017D, 2, \h017A>>,
     <<\h0181, \h0181, 1, \h0253>>, <<\h0182, \h0184, 2, \h0183>>,
     <<\h0186, \h0186, 1, \h0254>>, <<\h0187, \h0187, 1, \h0188>>,
     <<\h0189, \h018A, 1, \h0256>>, <<\h018B, \h018B, 1, \h018C>>,
     <<\h018E, \h018E, 1, \h01DD>>, <<\h018F, \h018F, 1, \h0259>>,
     <<\h0190, \h0190, 1, \h025B>>, <<\h0191, \h0191, 1, \h0192>>,
     <<\h0193, \h0193, 1, \h0260>>, <<\h0194, \h0194, 1, \h0263>>,
     <<\h0196, \h0196, 1, \h0269>>, <<\h0197, \h0197, 1, \h0268>>,
     <<\h0198, \h0198, 1, \h0199>>, <<\h019C, \h019C, 1, \h026F>>,
     <<\h019D, \h019D, 1, \h0272>>, <<\h019F, \h019F, 1, \h0275>>,
     <<\h01A0, \h01A4, 2, \h01A1>>, <<\h01A6, \h01A6, 1, \h0280>>,
     <<\h01A7, \h01A7, 1, \h01A8>>, <<\h01A9, \h01A9, 1, \h0283>>,
     <<\h01AC, \h01AC, 1, \h01AD>>, <<\h01AE, \h01AE, 1, \h0288>>,
     <<\h01AF, \h01AF, 1, \h01B0>>, <<\h01B1, \h01B2, 1, \h028A>>,
     <<\h01B3, \h01B5, 2, \h01B4>>, <<\h01B7, \h01B7, 1, \h0292>>,
     <<\h01B8, \h01B8, 1, \h01B9>>, <<\h01BC, \h01BC, 1, \h01BD>>,
     <<\h01C4, \h01C4, 1, \h01C6>>, <<\h01C5, \h01C5, 1, \h01C6>>,
     <<\h01C7, \h01C7, 1, \h01C9>>, <<\h01C8, \h01C8, 1, \h01C9>>,
     <<\h01CA, \h01CA, 1, \h01CC>>, <<\h01CB, \h01DB, 2, \h01CC>>,
     <<\h01DE, \h01EE, 2, \h01DF>>, <<\h01F1, \h01F1, 1, \h01F3>>,
     <<\h01F2, \h01F4, 2, \h01F3>>, <<\h01F6, \h01F6, 1, \h0195>>,
     <<\h01F7, \h01F7, 1, \h01BF>>, <<\h01F8, \h021E, 2, \h01F9>>,
     <<\h0220, \h0220, 1, \h019E>>, <<\h0222, \h0232, 2, \h0223>>,
     <<\h023A, \h023A, 1, \h2C65>>, <<\h023B, \h023B, 1, \h023C>>,
     <<\h023D, \h023D, 1, \h019A>>, <<\h023E, \h023E, 1, \h2C66>>,
     <<\h0241, \h0241, 1, \h0242>>, <<\h0243, \h0243, 1, \h0180>>,
     <<\h0244, \h0244, 1, \h0289>>, <<\h0245, \h0245, 1, \h028C>>,
     <<\h0246, \h024E, 2, \h0247>>, <<\h0370, \h0372, 2, \h0371>>,
     <<\h0376, \h0376, 1, \h0377>>, <<\h037F, \h037F, 1, \h03F3>>,
     <<\h0386, \h0386, 1, \h03AC>>, <<\h0388, \h038A, 1, \h03AD>>,
     <<\h038C, \h038C, 1, \h03CC>>, <<\h038E, \h038F, 1, \h03CD>>,
     <<\h0391, \h03A1, 1, \h03B1>>, <<\h03A3, \h03AB, 1, \h03C3>>,
     <<\h03CF, \h03CF, 1, \h03D7>>, <<\h03D8, \h03EE, 2, \h03D9>>,
     <<\h03F4, \h03F4, 1, \h03B8>>, <<\h03F7, \h03F7, 1, \h03F8>>,
     <<\h03F9, \h03F9, 1, \h03F2>>, <<\h03FA, \h03FA, 1, \h03FB>>,
     <<\h03FD, \h03FF, 1, \h037B>>, <<\h0400, \h040F, 1, \h0450>>,
     <<\h0410, \h042F, 1, \h0430>>, <<\h0460, \h0480, 2, \h0461>>,
     <<\h048A, \h04BE, 2, \h048B>>, <<\h04C0, \h04C0, 1, \h04CF>>,
     <<\h04C1, \h04CD, 2, \h04C2>>, <<\h04D0, \h052E, 2, \h04D1>>,
     <<\h0531, \h0556, 1, \h0561>>, <<\h10A0, \h10C5, 1, \h2D00>>,
     <<\h10C7, \h10C7, 1, \h2D27>>, <<\h10CD, \h10CD, 1, \h2D2D>>,
     <<\h13A0, \h13EF, 1, \hAB70>>, <<\h13F0, \h13F5, 1, \h13F8>>,
     <<\h1C90, \h1CBA, 1, \h10D0>>, <<\h1CBD, \h1CBF, 1, \h10FD>>,
     <<\h1E00, \h1E94, 2, \h1E01>>, <<\h1E9E, \h1E9E, 1, \h00DF>>,
     <<\h1EA0, \h1EFE, 2, \h1EA1>>, <<\h1F08, \h1F0F, 1, \h1F00>>,
     <<\h1F18, \h1F1D, 1, \h1F10>>, <<\h1F28, \h1F2F, 1, \h1F20>>,
     <<\h1F38, \h1F3F, 1, \h1F30>>, <<\h1F48, \h1F4D, 1, \h1F40>>,
     <<\h1F59, \h1F5F, 2, \h1F51>>, <<\h1F68, \h1F6F, 1, \h1F60>>,
     <<\h1F88, \h1F8F, 1, \h1F80>>, <<\h1F98, \h1F9F, 1, \h1F90>>,
     <<\h1FA8, \h1FAF, 1, \h1FA0>>, <<\h1FB8, \h1FB9, 1, \h1FB0>>,
     <<\h1FBA, \h1FBB, 1, \h1F70>>, <<\h1FBC, \h1FBC, 1, \h1FB3>>,
     <<\h1FC8, \h1FCB, 1, \h1F72>>, <<\h1FCC, \h1FCC, 1, \h1FC3>>,
     <<\h1FD8, \h1FD9, 1, \h1FD0>>, <<\h1FDA, \h1FDB, 1, \h1F76>>,
     <<\h1FE8, \h1FE9, 1, \h1FE0>>, <<\h1FEA, \h1FEB, 1, \h1F7A>>,
     <<\h1FEC, \h1FEC, 1, \h1FE5>>, <<\h1FF8, \h1FF9, 1, \h1F78>>,
     <<\h1FFA, \h1FFB, 1, \h1F7C>>, <<\h1FFC, \h1FFC, 1, \h1FF3>>,
     <<\h2126, \h2126, 1, \h03C9>>, <<\h212A, \h212A, 1, \h006B>>,
     <<\h212B, \h212B, 1, \h00E5>>, <<\h2132, \h2132, 1, \h214E>>,
     <<\h2160, \h216F, 1, \h2170>>, <<\h2183, \h2183, 1, \h2184>>,
     <<\h24B6, \h24CF, 1, \h24D0>>, <<\h2C00, \h2C2F, 1, \h2C30>>,
     <<\h2C60, \h2C60, 1, \h2C61>>, <<\h2C62, \h2C62, 1, \h026B>>,
     <<\h2C63, \h2C63, 1, \h1D7D>>, <<\h2C64, \h2C64, 1, \h027D>>,
     <<\h2C67, \h2C6B, 2, \h2C68>>, <<\h2C6D, \h2C6D, 1, \h0251>>,
     <<\h2C6E, \h2C6E, 1, \h0271>>, <<\h2C6F, \h2C6F, 1, \h0250>>,
     <<\h2C70, \h2C70, 1, \h0252>>, <<\h2C72, \h2C72, 1, \h2C73>>,
     <<\h2C75, \h2C75, 1, \h2C76>>, <<\h2C7E, \h2C7F, 1, \h023F>>,
     <<\h2C80, \h2CE2, 2, \h2C81>>, <<\h2CEB, \h2CED, 2, \h2CEC>>,
     <<\h2CF2, \h2CF2, 1, \h2CF3>>, <<\hA640, \hA66C, 2, \hA641>>,
     <<\hA680, \hA69A, 2, \hA681>>, <<\hA722, \hA72E, 2, \hA723>>,
     <<\hA732, \hA76E, 2, \hA733>>, <<\hA779, \hA77B, 2, \hA77A>>,
     <<\hA77D, \hA77D, 1, \h1D79>>, <<\hA77E, \hA786, 2, \hA77F>>,
     <<\hA78B, \hA78B, 1, \hA78C>>, <<\hA78D, \hA78D, 1, \h0265>>,
     <<\hA790, \hA792, 2, \hA791>>, <<\hA796, \hA7A8, 2, \hA797>>,
     <<\hA7AA, \hA7AA, 1, \h0266>>, <<\hA7AB, \hA7AB, 1, \h025C>>,
     <<\hA7AC, \hA7AC, 1, \h0261>>, <<\hA7AD, \hA7AD, 1, \h026C>>,
     <<\hA7AE, \hA7AE, 1, \h026A>>, <<\hA7B0, \hA7B0, 1, \h029E>>,
     <<\hA7B1, \hA7B1, 1, \h0287>>, <<\hA7B2, \hA7B2, 1, \h029D>>,
     <<\hA7B3, \hA7B3, 1, \hAB53>>, <<\hA7B4, \hA7C2, 2, \hA7B5>>,
     <<\hA7C4, \hA7C4, 1, \hA794>>, <<\hA7C5, \hA7C5, 1, \h0282>>,
     <<\hA7C6, \hA7C6, 1, \h1D8E>>, <<\hA7C7, \hA7C9, 2, \hA7C8>>,
     <<\hA7D0, \hA7D0, 1, \hA7D1>>, <<\hA7D6, \hA7D8, 2, \hA7D7>>,
     <<\hA7F5, \hA7F5, 1, \hA7F6>>, <<\hFF21, \hFF3A, 1, \hFF41>>,
     <<\h10400, \h10427, 1, \h10428>>, <<\h104B0, \h104D3, 1, \h104D8>>,
     <<\h10570, \h1057A, 1, \h10597>>, <<\h1057C, \h1058A, 1, \h105A3>>,
     <<\h1058C, \h10592, 1, \h105B3>>, <<\h10594, \h10595, 1, \h105BB>>,
     <<\h10C80, \h10CB2, 1, \h10CC0>>, <<\h118A0, \h118BF, 1, \h118C0>>,
     <<\h16E40, \h16E5F, 1, \h16E60>>, <<\h1E900, \h1E921, 1, \h1E922>>}

LowerPairs ==
    UNION {{<<Chr(cp), Chr(cp - run[1] + run[4])>> : cp \in RunPoints(run)} : run \in LowerRuns}

LowerTable ==
    [c \in {p[1] : p \in LowerPairs} |-> (CHOOSE p \in LowerPairs : p[1] = c)[2]]

\* U+0130 LATIN CAPITAL LETTER I WITH DOT ABOVE, the one character whose
\* lowercase is two characters: i and U+0307 COMBINING DOT ABOVE.
CapitalIDot == "U+0130"

CombiningDot == "U+0307"

\* U+03A3 GREEK CAPITAL LETTER SIGMA lowers to U+03C2 (final sigma) at the end of
\* a word and to U+03C3 elsewhere.
CapitalSigma == "U+03A3"

FinalSigma == "U+03C2"

\* The cased characters beyond ASCII (Lowercase, Uppercase or titlecase letters),
\* as runs <<first, last, step>>.
CasedRuns ==
    {<<\h00AA, \h00AA, 1>>, <<\h00B5, \h00B5, 1>>, <<\h00BA, \h00BA, 1>>,
     <<\h00C0, \h00D6, 1>>, <<\h00D8, \h00F6, 1>>, <<\h00F8, \h01BA, 1>>,
     <<\h01BC, \h01BF, 1>>, <<\h01C4, \h0293, 1>>, <<\h0295, \h02B8, 1>>,
     <<\h02C0, \h02C1, 1>>, <<\h02E0, \h02E4, 1>>, <<\h0345, \h0345, 1>>,
     <<\h0370, \h0373, 1>>, <<\h0376, \h0377, 1>>, <<\h037A, \h037D, 1>>,
     <<\h037F, \h037F, 1>>, <<\h0386, \h0388, 2>>, <<\h0389, \h038A, 1>>,
     <<\h038C, \h038E, 2>>, <<\h038F, \h03A1, 1>>, <<\h03A3, \h03F5, 1>>,
     <<\h03F7, \h0481, 1>>, <<\h048A, \h052F, 1>>, <<\h0531, \h0556, 1>>,
     <<\h0560, \h0588, 1>>, <<\h10A0, \h10C5, 1>>, <<\h10C7, \h10C7, 1>>,
     <<\h10CD, \h10CD, 1>>, <<\h10D0, \h10FA, 1>>, <<\h10FD, \h10FF, 1>>,
     <<\h13A0, \h13F5, 1>>, <<\h13F8, \h13FD, 1>>, <<\h1C80, \h1C88, 1>>,
     <<\h1C90, \h1CBA, 1>>, <<\h1CBD, \h1CBF, 1>>, <<\h1D00, \h1DBF, 1>>,
     <<\h1E00, \h1F15, 1>>, <<\h1F18, \h1F1D, 1>>, <<\h1F20, \h1F45, 1>>,
     <<\h1F48, \h1F4D, 1>>, <<\h1F50, \h1F57, 1>>, <<\h1F59, \h1F5F, 2>>,
     <<\h1F60, \h1F7D, 1>>, <<\h1F80, \h1FB4, 1>>, <<\h1FB6, \h1FBC, 1>>,
     <<\h1FBE, \h1FBE, 1>>, <<\h1FC2, \h1FC4, 1>>, <<\h1FC6, \h1FCC, 1>>,
     <<\h1FD0, \h1FD3, 1>>, <<\h1FD6, \h1FDB, 1>>, <<\h1FE0, \h1FEC, 1>>,
     <<\h1FF2, \h1FF4, 1>>, <<\h1FF6, \h1FFC, 1>>, <<\h2071, \h2071, 1>>,
     <<\h207F, \h207F, 1>>, <<\h2090, \h209C, 1>>, <<\h2102, \h2102, 1>>,
     <<\h2107, \h2107, 1>>, <<\h210A, \h2113, 1>>, <<\h2115, \h2115, 1>>,
     <<\h2119, \h211D, 1>>, <<\h2124, \h212A, 2>>, <<\h212B, \h212D, 1>>,
     <<\h212F, \h2134, 1>>, <<\h2139, \h2139, 1>>, <<\h213C, \h213F, 1>>,
     <<\h2145, \h2149, 1>>, <<\h214E, \h214E, 1>>, <<\h2160, \h217F, 1>>,
     <<\h2183, \h2184, 1>>, <<\h24B6, \h24E9, 1>>, <<\h2C00, \h2CE4, 1>>,
     <<\h2CEB, \h2CEE, 1>>, <<\h2CF2, \h2CF3, 1>>, <<\h2D00, \h2D25, 1>>,
     <<\h2D27, \h2D27, 1>>, <<\h2D2D, \h2D2D, 1>>, <<\hA640, \hA66D, 1>>,
     <<\hA680, \hA69D, 1>>, <<\hA722, \hA787, 1>>, <<\hA78B, \hA78E, 1>>,
     <<\hA790, \hA7CA, 1>>, <<\hA7D0, \hA7D1, 1>>, <<\hA7D3, \hA7D5, 2>>,
     <<\hA7D6, \hA7D9, 1>>, <<\hA7F5, \hA7F6, 1>>, <<\hA7F8, \hA7FA, 1>>,
     <<\hAB30, \hAB5A, 1>>, <<\hAB5C, \hAB68, 1>>, <<\hAB70, \hABBF, 1>>,
     <<\hFB00, \hFB06, 1>>, <<\hFB13, \hFB17, 1>>, <<\hFF21, \hFF3A, 1>>,
     <<\hFF41, \hFF5A, 1>>, <<\h10400, \h1044F, 1>>, <<\h104B0, \h104D3, 1>>,
     <<\h104D8, \h104FB, 1>>, <<\h10570, \h1057A, 1>>, <<\h1057C, \h1058A, 1>>,
     <<\h1058C, \h10592, 1>>, <<\h10594, \h10595, 1>>, <<\h10597, \h105A1, 1>>,
     <<\h105A3, \h105B1, 1>>, <<\h105B3, \h105B9, 1>>, <<\h105BB, \h105BC, 1>>,
     <<\h10780, \h10780, 1>>, <<\h10783, \h10785, 1>>, <<\h10787, \h107B0, 1>>,
     <<\h107B2, \h107BA, 1>>, <<\h10C80, \h10CB2, 1>>, <<\h10CC0, \h10CF2, 1>>,
     <<\h118A0, \h118DF, 1>>, <<\h16E40, \h16E7F, 1>>, <<\h1D400, \h1D454, 1>>,
     <<\h1D456, \h1D49C, 1>>, <<\h1D49E, \h1D49F, 1>>, <<\h1D4A2, \h1D4A2, 1>>,
     <<\h1D4A5, \h1D4A6, 1>>, <<\h1D4A9, \h1D4AC, 1>>, <<\h1D4AE, \h1D4B9, 1>>,
     <<\h1D4BB, \h1D4BD, 2>>, <<\h1D4BE, \h1D4C3, 1>>, <<\h1D4C5, \h1D505, 1>>,
     <<\h1D507, \h1D50A, 1>>, <<\h1D50D, \h1D514, 1>>, <<\h1D516, \h1D51C, 1>>,
     <<\h1D51E, \h1D539, 1>>, <<\h1D53B, \h1D53E, 1>>, <<\h1D540, \h1D544, 1>>,
     <<\h1D546, \h1D546, 1>>, <<\h1D54A, \h1D550, 1>>, <<\h1D552, \h1D6A5, 1>>,
     <<\h1D6A8, \h1D6C0, 1>>, <<\h1D6C2, \h1D6DA, 1>>, <<\h1D6DC, \h1D6FA, 1>>,
     <<\h1D6FC, \h1D714, 1>>, <<\h1D716, \h1D734, 1>>, <<\h1D736, \h1D74E, 1>>,
     <<\h1D750, \h1D76E, 1>>, <<\h1D770, \h1D788, 1>>, <<\h1D78A, \h1D7A8, 1>>,
     <<\h1D7AA, \h1D7C2, 1>>, <<\h1D7C4, \h1D7CB, 1>>, <<\h1DF00, \h1DF09, 1>>,
     <<\h1DF0B, \h1DF1E, 1>>, <<\h1E900, \h1E943, 1>>, <<\h1F130, \h1F149, 1>>,
     <<\h1F150, \h1F169, 1>>, <<\h1F170, \h1F189, 1>>}

Cased ==
    {UpperCase[i] : i \in 1..26} \cup {LowerCase[i] : i \in 1..26} \cup RunChars(CasedRuns)

\* The case-ignorable characters beyond ASCII, as runs <<first, last, step>>.
CaseIgnorableRuns ==
    {<<\h00A8, \h00A8, 1>>, <<\h00AD, \h00AF, 2>>, <<\h00B4, \h00B4, 1>>,
     <<\h00B7, \h00B8, 1>>, <<\h02B0, \h036F, 1>>, <<\h0374, \h0375, 1>>,
     <<\h037A, \h037A, 1>>, <<\h0384, \h0385, 1>>, <<\h0387, \h0387, 1>>,
     <<\h0483, \h0489, 1>>, <<\h0559, \h0559, 1>>, <<\h055F, \h055F, 1>>,
     <<\h0591, \h05BD, 1>>, <<\h05BF, \h05C1, 2>>, <<\h05C2, \h05C4, 2>>,
     <<\h05C5, \h05C7, 2>>, <<\h05F4, \h05F4, 1>>, <<\h0600, \h0605, 1>>,
     <<\h0610, \h061A, 1>>, <<\h061C, \h061C, 1>>, <<\h0640, \h0640, 1>>,
     <<\h064B, \h065F, 1>>, <<\h0670, \h0670, 1>>, <<\h06D6, \h06DD, 1>>,
     <<\h06DF, \h06E8, 1>>, <<\h06EA, \h06ED, 1>>, <<\h070F, \h0711, 2>>,
     <<\h0730, \h074A, 1>>, <<\h07A6, \h07B0, 1>>, <<\h07EB, \h07F5, 1>>,
     <<\h07FA, \h07FA, 1>>, <<\h07FD, \h07FD, 1>>, <<\h0816, \h082D, 1>>,
     <<\h0859, \h085B, 1>>, <<\h0888, \h0888, 1>>, <<\h0890, \h0891, 1>>,
     <<\h0898, \h089F, 1>>, <<\h08C9, \h0902, 1>>, <<\h093A, \h093C, 2>>,
     <<\h0941, \h0948, 1>>, <<\h094D, \h094D, 1>>, <<\h0951, \h0957, 1>>,
     <<\h0962, \h0963, 1>>, <<\h0971, \h0971, 1>>, <<\h0981, \h0981, 1>>,
     <<\h09BC, \h09BC, 1>>, <<\h09C1, \h09C4, 1>>, <<\h09CD, \h09CD, 1>>,
     <<\h09E2, \h09E3, 1>>, <<\h09FE, \h09FE, 1>>, <<\h0A01, \h0A02, 1>>,
     <<\h0A3C, \h0A3C, 1>>, <<\h0A41, \h0A42, 1>>, <<\h0A47, \h0A48, 1>>,
     <<\h0A4B, \h0A4D, 1>>, <<\h0A51, \h0A51, 1>>, <<\h0A70, \h0A71, 1>>,
     <<\h0A75, \h0A75, 1>>, <<\h0A81, \h0A82, 1>>, <<\h0ABC, \h0ABC, 1>>,
     <<\h0AC1, \h0AC5, 1>>, <<\h0AC7, \h0AC8, 1>>, <<\h0ACD, \h0ACD, 1>>,
     <<\h0AE2, \h0AE3, 1>>, <<\h0AFA, \h0AFF, 1>>, <<\h0B01, \h0B01, 1>>,
     <<\h0B3C, \h0B3C, 1>>, <<\h0B3F, \h0B41, 2>>, <<\h0B42, \h0B44, 1>>,
     <<\h0B4D, \h0B4D, 1>>, <<\h0B55, \h0B56, 1>>, <<\h0B62, \h0B63, 1>>,
     <<\h0B82, \h0B82, 1>>, <<\h0BC0, \h0BC0, 1>>, <<\h0BCD, \h0BCD, 1>>,
     <<\h0C00, \h0C00, 1>>, <<\h0C04, \h0C04, 1>>, <<\h0C3C, \h0C3E, 2>>,
     <<\h0C3F, \h0C40, 1>>, <<\h0C46, \h0C48, 1>>, <<\h0C4A, \h0C4D, 1>>,
     <<\h0C55, \h0C56, 1>>, <<\h0C62, \h0C63, 1>>, <<\h0C81, \h0C81, 1>>,
     <<\h0CBC, \h0CBC, 1>>, <<\h0CBF, \h0CBF, 1>>, <<\h0CC6, \h0CC6, 1>>,
     <<\h0CCC, \h0CCD, 1>>, <<\h0CE2, \h0CE3, 1>>, <<\h0D00, \h0D01, 1>>,
     <<\h0D3B, \h0D3C, 1>>, <<\h0D41, \h0D44, 1>>, <<\h0D4D, \h0D4D, 1>>,
     <<\h0D62, \h0D63, 1>>, <<\h0D81, \h0D81, 1>>, <<\h0DCA, \h0DCA, 1>>,
     <<\h0DD2, \h0DD4, 1>>, <<\h0DD6, \h0DD6, 1>>, <<\h0E31, \h0E31, 1>>,
     <<\h0E34, \h0E3A, 1>>, <<\h0E46, \h0E4E, 1>>, <<\h0EB1, \h0EB1, 1>>,
     <<\h0EB4, \h0EBC, 1>>, <<\h0EC6, \h0EC8, 2>>, <<\h0EC9, \h0ECD, 1>>,
     <<\h0F18, \h0F19, 1>>, <<\h0F35, \h0F39, 2>>, <<\h0F71, \h0F7E, 1>>,
     <<\h0F80, \h0F84, 1>>, <<\h0F86, \h0F87, 1>>, <<\h0F8D, \h0F97, 1>>,
     <<\h0F99, \h0FBC, 1>>, <<\h0FC6, \h0FC6, 1>>, <<\h102D, \h1030, 1>>,
     <<\h1032, \h1037, 1>>, <<\h1039, \h103A, 1>>, <<\h103D, \h103E, 1>>,
     <<\h1058, \h1059, 1>>, <<\h105E, \h1060, 1>>, <<\h1071, \h1074, 1>>,
     <<\h1082, \h1082, 1>>, <<\h1085, \h1086, 1>>, <<\h108D, \h108D, 1>>,
     <<\h109D, \h109D, 1>>, <<\h10FC, \h10FC, 1>>, <<\h135D, \h135F, 1>>,
     <<\h1712, \h1714, 1>>, <<\h1732, \h1733, 1>>, <<\h1752, \h1753, 1>>,
     <<\h1772, \h1773, 1>>, <<\h17B4, \h17B5, 1>>, <<\h17B7, \h17BD, 1>>,
     <<\h17C6, \h17C6, 1>>, <<\h17C9, \h17D3, 1>>, <<\h17D7, \h17D7, 1>>,
     <<\h17DD, \h17DD, 1>>, <<\h180B, \h180F, 1>>, <<\h1843, \h1843, 1>>,
     <<\h1885, \h1886, 1>>, <<\h18A9, \h18A9, 1>>, <<\h1920, \h1922, 1>>,
     <<\h1927, \h1928, 1>>, <<\h1932, \h1932, 1>>, <<\h1939, \h193B, 1>>,
     <<\h1A17, \h1A18, 1>>, <<\h1A1B, \h1A1B, 1>>, <<\h1A56, \h1A58, 2>>,
     <<\h1A59, \h1A5E, 1>>, <<\h1A60, \h1A62, 2>>, <<\h1A65, \h1A6C, 1>>,
     <<\h1A73, \h1A7C, 1>>, <<\h1A7F, \h1A7F, 1>>, <<\h1AA7, \h1AA7, 1>>,
     <<\h1AB0, \h1ACE, 1>>, <<\h1B00, \h1B03, 1>>, <<\h1B34, \h1B36, 2>>,
     <<\h1B37, \h1B3A, 1>>, <<\h1B3C, \h1B3C, 1>>, <<\h1B42, \h1B42, 1>>,
     <<\h1B6B, \h1B73, 1>>, <<\h1B80, \h1B81, 1>>, <<\h1BA2, \h1BA5, 1>>,
     <<\h1BA8, \h1BA9, 1>>, <<\h1BAB, \h1BAD, 1>>, <<\h1BE6, \h1BE8, 2>>,
     <<\h1BE9, \h1BE9, 1>>, <<\h1BED, \h1BEF, 2>>, <<\h1BF0, \h1BF1, 1>>,
     <<\h1C2C, \h1C33, 1>>, <<\h1C36, \h1C37, 1>>, <<\h1C78, \h1C7D, 1>>,
     <<\h1CD0, \h1CD2, 1>>, <<\h1CD4, \h1CE0, 1>>, <<\h1CE2, \h1CE8, 1>>,
     <<\h1CED, \h1CED, 1>>, <<\h1CF4, \h1CF4, 1>>, <<\h1CF8, \h1CF9, 1>>,
     <<\h1D2C, \h1D6A, 1>>, <<\h1D78, \h1D78, 1>>, <<\h1D9B, \h1DFF, 1>>,
     <<\h1FBD, \h1FBF, 2>>, <<\h1FC0, \h1FC1, 1>>, <<\h1FCD, \h1FCF, 1>>,
     <<\h1FDD, \h1FDF, 1>>, <<\h1FED, \h1FEF, 1>>, <<\h1FFD, \h1FFE, 1>>,
     <<\h200B, \h200F, 1>>, <<\h2018, \h2019, 1>>, <<\h2024, \h2024, 1>>,
     <<\h2027, \h2027, 1>>, <<\h202A, \h202E, 1>>, <<\h2060, \h2064, 1>>,
     <<\h2066, \h206F, 1>>, <<\h2071, \h2071, 1>>, <<\h207F, \h207F, 1>>,
     <<\h2090, \h209C, 1>>, <<\h20D0, \h20F0, 1>>, <<\h2C7C, \h2C7D, 1>>,
     <<\h2CEF, \h2CF1, 1>>, <<\h2D6F, \h2D6F, 1>>, <<\h2D7F, \h2D7F, 1>>,
     <<\h2DE0, \h2DFF, 1>>, <<\h2E2F, \h2E2F, 1>>, <<\h3005, \h3005, 1>>,
     <<\h302A, \h302D, 1>>, <<\h3031, \h3035, 1>>, <<\h303B, \h303B, 1>>,
     <<\h3099, \h309E, 1>>, <<\h30FC, \h30FE, 1>>, <<\hA015, \hA015, 1>>,
     <<\hA4F8, \hA4FD, 1>>, <<\hA60C, \hA60C, 1>>, <<\hA66F, \hA672, 1>>,
     <<\hA674, \hA67D, 1>>, <<\hA67F, \hA67F, 1>>, <<\hA69C, \hA69F, 1>>,
     <<\hA6F0, \hA6F1, 1>>, <<\hA700, \hA721, 1>>, <<\hA770, \hA770, 1>>,
     <<\hA788, \hA78A, 1>>, <<\hA7F2, \hA7F4, 1>>, <<\hA7F8, \hA7F9, 1>>,
     <<\hA802, \hA802, 1>>, <<\hA806, \hA806, 1>>, <<\hA80B, \hA80B, 1>>,
     <<\hA825, \hA826, 1>>, <<\hA82C, \hA82C, 1>>, <<\hA8C4, \hA8C5, 1>>,
     <<\hA8E0, \hA8F1, 1>>, <<\hA8FF, \hA8FF, 1>>, <<\hA926, \hA92D, 1>>,
     <<\hA947, \hA951, 1>>, <<\hA980, \hA982, 1>>, <<\hA9B3, \hA9B3, 1>>,
     <<\hA9B6, \hA9B9, 1>>, <<\hA9BC, \hA9BD, 1>>, <<\hA9CF, \hA9CF, 1>>,
     <<\hA9E5, \hA9E6, 1>>, <<\hAA29, \hAA2E, 1>>, <<\hAA31, \hAA32, 1>>,
     <<\hAA35, \hAA36, 1>>, <<\hAA43, \hAA43, 1>>, <<\hAA4C, \hAA4C, 1>>,
     <<\hAA70, \hAA70, 1>>, <<\hAA7C, \hAA7C, 1>>, <<\hAAB0, \hAAB2, 2>>,
     <<\hAAB3, \hAAB4, 1>>, <<\hAAB7, \hAAB8, 1>>, <<\hAABE, \hAABF, 1>>,
     <<\hAAC1, \hAAC1, 1>>, <<\hAADD, \hAADD, 1>>, <<\hAAEC, \hAAED, 1>>,
     <<\hAAF3, \hAAF4, 1>>, <<\hAAF6, \hAAF6, 1>>, <<\hAB5B, \hAB5F, 1>>,
     <<\hAB69, \hAB6B, 1>>, <<\hABE5, \hABE5, 1>>, <<\hABE8, \hABE8, 1>>,
     <<\hABED, \hABED, 1>>, <<\hFB1E, \hFB1E, 1>>, <<\hFBB2, \hFBC2, 1>>,
     <<\hFE00, \hFE0F, 1>>, <<\hFE13, \hFE13, 1>>, <<\hFE20, \hFE2F, 1>>,
     <<\hFE52, \hFE52, 1>>, <<\hFE55, \hFE55, 1>>, <<\hFEFF, \hFEFF, 1>>,
     <<\hFF07, \hFF07, 1>>, <<\hFF0E, \hFF0E, 1>>, <<\hFF1A, \hFF1A, 1>>,
     <<\hFF3E, \hFF40, 2>>, <<\hFF70, \hFF70, 1>>, <<\hFF9E, \hFF9F, 1>>,
     <<\hFFE3, \hFFE3, 1>>, <<\hFFF9, \hFFFB, 1>>, <<\h101FD, \h101FD, 1>>,
     <<\h102E0, \h102E0, 1>>, <<\h10376, \h1037A, 1>>, <<\h10780, \h10785, 1>>,
     <<\h10787, \h107B0, 1>>, <<\h107B2, \h107BA, 1>>, <<\h10A01, \h10A03, 1>>,
     <<\h10A05, \h10A06, 1>>, <<\h10A0C, \h10A0F, 1>>, <<\h10A38, \h10A3A, 1>>,
     <<\h10A3F, \h10A3F, 1>>, <<\h10AE5, \h10AE6, 1>>, <<\h10D24, \h10D27, 1>>,
     <<\h10EAB, \h10EAC, 1>>, <<\h10F46, \h10F50, 1>>, <<\h10F82, \h10F85, 1>>,
     <<\h11001, \h11001, 1>>, <<\h11038, \h11046, 1>>, <<\h11070, \h11070, 1>>,
     <<\h11073, \h11074, 1>>, <<\h1107F, \h11081, 1>>, <<\h110B3, \h110B6, 1>>,
     <<\h110B9, \h110BA, 1>>, <<\h110BD, \h110BD, 1>>, <<\h110C2, \h110C2, 1>>,
     <<\h110CD, \h110CD, 1>>, <<\h11100, \h11102, 1>>, <<\h11127, \h1112B, 1>>,
     <<\h1112D, \h11134, 1>>, <<\h11173, \h11173, 1>>, <<\h11180, \h11181, 1>>,
     <<\h111B6, \h111BE, 1>>, <<\h111C9, \h111CC, 1>>, <<\h111CF, \h111CF, 1>>,
     <<\h1122F, \h11231, 1>>, <<\h11234, \h11236, 2>>, <<\h11237, \h11237, 1>>,
     <<\h1123E, \h1123E, 1>>, <<\h112DF, \h112DF, 1>>, <<\h112E3, \h112EA, 1>>,
     <<\h11300, \h11301, 1>>, <<\h1133B, \h1133C, 1>>, <<\h11340, \h11340, 1>>,
     <<\h11366, \h1136C, 1>>, <<\h11370, \h11374, 1>>, <<\h11438, \h1143F, 1>>,
     <<\h11442, \h11444, 1>>, <<\h11446, \h11446, 1>>, <<\h1145E, \h1145E, 1>>,
     <<\h114B3, \h114B8, 1>>, <<\h114BA, \h114BA, 1>>, <<\h114BF, \h114C0, 1>>,
     <<\h114C2, \h114C3, 1>>, <<\h115B2, \h115B5, 1>>, <<\h115BC, \h115BD, 1>>,
     <<\h115BF, \h115C0, 1>>, <<\h115DC, \h115DD, 1>>, <<\h11633, \h1163A, 1>>,
     <<\h1163D, \h1163F, 2>>, <<\h11640, \h11640, 1>>, <<\h116AB, \h116AD, 2>>,
     <<\h116B0, \h116B5, 1>>, <<\h116B7, \h116B7, 1>>, <<\h1171D, \h1171F, 1>>,
     <<\h11722, \h11725, 1>>, <<\h11727, \h1172B, 1>>, <<\h1182F, \h11837, 1>>,
     <<\h11839, \h1183A, 1>>, <<\h1193B, \h1193C, 1>>, <<\h1193E, \h1193E, 1>>,
     <<\h11943, \h11943, 1>>, <<\h119D4, \h119D7, 1>>, <<\h119DA, \h119DB, 1>>,
     <<\h119E0, \h119E0, 1>>, <<\h11A01, \h11A0A, 1>>, <<\h11A33, \h11A38, 1>>,
     <<\h11A3B, \h11A3E, 1>>, <<\h11A47, \h11A47, 1>>, <<\h11A51, \h11A56, 1>>,
     <<\h11A59, \h11A5B, 1>>, <<\h11A8A, \h11A96, 1>>, <<\h11A98, \h11A99, 1>>,
     <<\h11C30, \h11C36, 1>>, <<\h11C38, \h11C3D, 1>>, <<\h11C3F, \h11C3F, 1>>,
     <<\h11C92, \h11CA7, 1>>, <<\h11CAA, \h11CB0, 1>>, <<\h11CB2, \h11CB3, 1>>,
     <<\h11CB5, \h11CB6, 1>>, <<\h11D31, \h11D36, 1>>, <<\h11D3A, \h11D3C, 2>>,
     <<\h11D3D, \h11D3F, 2>>, <<\h11D40, \h11D45, 1>>, <<\h11D47, \h11D47, 1>>,
     <<\h11D90, \h11D91, 1>>, <<\h11D95, \h11D97, 2>>, <<\h11EF3, \h11EF4, 1>>,
     <<\h13430, \h13438, 1>>, <<\h16AF0, \h16AF4, 1>>, <<\h16B30, \h16B36, 1>>,
     <<\h16B40, \h16B43, 1>>, <<\h16F4F, \h16F4F, 1>>, <<\h16F8F, \h16F9F, 1>>,
     <<\h16FE0, \h16FE1, 1>>, <<\h16FE3, \h16FE4, 1>>, <<\h1AFF0, \h1AFF3, 1>>,
     <<\h1AFF5, \h1AFFB, 1>>, <<\h1AFFD, \h1AFFE, 1>>, <<\h1BC9D, \h1BC9E, 1>>,
     <<\h1BCA0, \h1BCA3, 1>>, <<\h1CF00, \h1CF2D, 1>>, <<\h1CF30, \h1CF46, 1>>,
     <<\h1D167, \h1D169, 1>>, <<\h1D173, \h1D182, 1>>, <<\h1D185, \h1D18B, 1>>,
     <<\h1D1AA, \h1D1AD, 1>>, <<\h1D242, \h1D244, 1>>, <<\h1DA00, \h1DA36, 1>>,
     <<\h1DA3B, \h1DA6C, 1>>, <<\h1DA75, \h1DA75, 1>>, <<\h1DA84, \h1DA84, 1>>,
     <<\h1DA9B, \h1DA9F, 1>>, <<\h1DAA1, \h1DAAF, 1>>, <<\h1E000, \h1E006, 1>>,
     <<\h1E008, \h1E018, 1>>, <<\h1E01B, \h1E021, 1>>, <<\h1E023, \h1E024, 1>>,
     <<\h1E026, \h1E02A, 1>>, <<\h1E130, \h1E13D, 1>>, <<\h1E2AE, \h1E2AE, 1>>,
     <<\h1E2EC, \h1E2EF, 1>>, <<\h1E8D0, \h1E8D6, 1>>, <<\h1E944, \h1E94B, 1>>,
     <<\h1F3FB, \h1F3FF, 1>>, <<\hE0001, \hE0001, 1>>, <<\hE0020, \hE007F, 1>>,
     <<\hE0100, \hE01EF, 1>>}

CaseIgnorable == {"'", ".", ":", "^", "U+0060"} \cup RunChars(CaseIgnorableRuns)

\* A capital sigma at position i is final when, case-ignorable characters
\* skipped, a cased character comes before it and none comes after it.
IsFinalSigma(t, i) ==
    LET before == {j \in 1..(i - 1) : t[j] \notin CaseIgnorable}
        after == {j \in (i + 1)..Len(t) : t[j] \notin CaseIgnorable}
    IN  /\ before # {}
        /\ t[CHOOSE j \in before : \A k \in before : k <= j] \in Cased
        /\ ~(/\ after # {}
             /\ t[CHOOSE j \in after : \A k \in after : j <= k] \in Cased)

\* The lowercase of the character c, one or two characters.
LowerChar(c) ==
    IF \E i \in 1..26 : UpperCase[i] = c
    THEN <<LowerCase[CHOOSE i \in 1..26 : UpperCase[i] = c]>>
    ELSE IF c = CapitalIDot THEN <<"i", CombiningDot>>
    ELSE IF c \in DOMAIN LowerTable THEN <<LowerTable[c]>>
    ELSE <<c>>

\* The lowercase of the character at position i of t.
LowerAt(t, i) ==
    IF t[i] = CapitalSigma /\ IsFinalSigma(t, i) THEN <<FinalSigma>> ELSE LowerChar(t[i])

\* str.lower(): the lowercase of each character, in order.
Lower(t) ==
    LET wide == {i \in 1..Len(t) : t[i] = CapitalIDot}
        end(i) == i + Cardinality({j \in wide : j <= i})
    IN  IF wide = {} THEN [i \in 1..Len(t) |-> LowerAt(t, i)[1]]
        ELSE [k \in 1..end(Len(t)) |->
                LET i == CHOOSE i \in 1..Len(t) : end(i - 1) < k /\ k <= end(i)
                IN  LowerAt(t, i)[k - end(i - 1)]]

\* `sub in t`
Contains(sub, t) ==
    \E i \in 0..(Len(t) - Len(sub)) : \A j \in 1..Len(sub) : t[i + j] = sub[j]

EndsWith(t, suffix) ==
    /\ Len(t) >= Len(suffix)
    /\ \A j \in 1..Len(suffix) : t[Len(t) - Len(suffix) + j] = suffix[j]

\* any(w in text for w in words)
AnyIn(words, text) == \E w \in words : Contains(w, text)

\* The line boundaries of str.splitlines().
LineBreaks ==
    {"\n", "\r", "U+000B", "\f", "U+001C", "U+001D", "U+001E", "U+0085", "U+2028", "U+2029"}

\* The whitespace of str.strip(): the characters c with c.isspace().
WhiteSpace ==
    LineBreaks \cup
    {"\t", " ", "U+001F", "U+00A0", "U+1680", "U+2000", "U+2001", "U+2002", "U+2003",
     "U+2004", "U+2005", "U+2006", "U+2007", "U+2008", "U+2009", "U+200A", "U+202F",
     "U+205F", "U+3000"}

\* The j-th smallest member of a set of positions (0 for j = 0).
Nth(ends, j) ==
    IF j = 0 THEN 0 ELSE CHOOSE e \in ends : Cardinality({x \in ends : x <= e}) = j

\* The lines of t whose boundaries end at the positions `ends`, k of them.
LinesBetween(t, ends, k) ==
    LET first(e) == IF t[e] = "\n" /\ e > 1 /\ t[e - 1] = "\r" THEN e - 1 ELSE e
        last == Nth(ends, k)
    IN  [j \in 1..(IF last < Len(t) THEN k + 1 ELSE k) |->
            IF j <= k THEN SubSeq(t, Nth(ends, j - 1) + 1, first(Nth(ends, j)) - 1)
            ELSE SubSeq(t, last + 1, Len(t))]

\* The positions where a line boundary of t ends ("\r\n" is one boundary).
BoundaryEnds(t) ==
    {i \in 1..Len(t) :
        /\ t[i] \in LineBreaks
        /\ ~(t[i] = "\r" /\ i < Len(t) /\ t[i + 1] = "\n")}

\* str.splitlines(): a line ends at each boundary, and what follows the last
\* boundary is a line unless it is empty.
SplitLines(t) == The({LinesBetween(t, ends, Cardinality(ends)) : ends \in {BoundaryEnds(t)}})

\* str.strip()
Strip(line) ==
    LET keep == {i \in 1..Len(line) : line[i] \notin WhiteSpace} IN
    IF keep = {} THEN <<>>
    ELSE LET lo == CHOOSE i \in keep : \A j \in keep : i <= j
             hi == CHOOSE i \in keep : \A j \in keep : i >= j
         IN  SubSeq(line, lo, hi)

RECURSIVE Join(_, _)
\* sep.join(lines)
Join(sep, lines) ==
    IF lines = <<>> THEN <<>>
    ELSE IF Len(lines) = 1 THEN lines[1]
    ELSE lines[1] \o sep \o Join(sep, Tail(lines))

\* s.split('@')[0]
LocalPart(s) ==
    LET ats == {i \in 1..Len(s) : s[i] = "@"} IN
    IF ats = {} THEN s
    ELSE SubSeq(s, 1, (CHOOSE i \in ats : \A j \in ats : i <= j) - 1)

Digits == <<"0", "1", "2", "3", "4", "5", "6", "7", "8", "9">>

RECURSIVE Str(_)
\* str(n) of an int n >= 0
Str(n) == IF n < 10 THEN <<Digits[n + 1]>> ELSE Str(n \div 10) \o <<Digits[(n % 10) + 1]>>

RECURSIVE ZeroPad(_, _)
\* a number in a zero-padded field of strftime
ZeroPad(t, width) == IF Len(t) >= width THEN t ELSE ZeroPad(<<"0">> \o t, width)

-----------------------------------------------------------------------------
(* datetime.                                                               *)

SecondsPerDay == 86400

\* The proleptic Gregorian calendar: day number since 1970-01-01 of a date.
DaysFromCivil(y, m, d) ==
    LET yy  == IF m <= 2 THEN y - 1 ELSE y
        era == yy \div 400
        yoe == yy - era * 400
        mp  == IF m > 2 THEN m - 3 ELSE m + 9
        doy == (153 * mp + 2) \div 5 + d - 1
        doe == yoe * 365 + yoe \div 4 - yoe \div 100 + doy
    IN  era * 146097 + doe - 719468

CivilFromDays(days) ==
    LET z   == days + 719468
        era == z \div 146097
        doe == z - era * 146097
        yoe == (doe - doe \div 1460 + doe \div 36524 - doe \div 146096) \div 365
        doy == doe - (365 * yoe + yoe \div 4 - yoe \div 100)
        mp  == (5 * doy + 2) \div 153
        d   == doy - (153 * mp + 2) \div 5 + 1
        m   == IF mp < 10 THEN mp + 3 ELSE mp - 9
        y   == yoe + era * 400 + (IF m <= 2 THEN 1 ELSE 0)
    IN  [year |-> y, month |-> m, day |-> d]

\* datetime.now()
DatetimeNow(c) ==
    The({[year |-> date.year, month |-> date.month, day |-> date.day,
          hour |-> sod \div 3600, minute |-> (sod % 3600) \div 60, second |-> sod % 60,
          microsecond |-> c.micro] :
            date \in {CivilFromDays(c.sec \div SecondsPerDay)}, sod \in {c.sec % SecondsPerDay}})

\* dt + timedelta(days=n)
AddDays(dt, n) ==
    The({[dt EXCEPT !.year = date.year, !.month = date.month, !.day = date.day] :
            date \in {CivilFromDays(DaysFromCivil(dt.year, dt.month, dt.day) + n)}})

\* dt.replace(hour=16, minute=0, second=0, microsecond=0)
AtFourPm(dt) == [dt EXCEPT !.hour = 16, !.minute = 0, !.second = 0, !.microsecond = 0]

\* int(time.time())
TimeSeconds(c) == c.sec

\* dt.strftime("%Y-%m-%d %I:%M %p"): the year as it is (the C library's %Y
\* pads no year below 1000), the other fields in two digits.
Strftime(dt) ==
    LET h12 == IF dt.hour % 12 = 0 THEN 12 ELSE dt.hour % 12 IN
    Str(dt.year) \o <<"-">> \o ZeroPad(Str(dt.month), 2) \o <<"-">>
      \o ZeroPad(Str(dt.day), 2) \o <<" ">> \o ZeroPad(Str(h12), 2) \o <<":">>
      \o ZeroPad(Str(dt.minute), 2) \o <<" ">>
      \o (IF dt.hour < 12 THEN <<"A", "M">> ELSE <<"P", "M">>)

-----------------------------------------------------------------------------
(* The agents.                                                             *)

MeetingWords ==
    {<<"m", "e", "e", "t">>, <<"m", "e", "e", "t", "i", "n", "g">>, <<"s", "c", "h", "e", "d", "u", "l", "e">>, <<"c", "a", "l", "l">>}

InfoWords ==
    {<<"p", "l", "e", "a", "s", "e">>, <<"c", "o", "u", "l", "d", " ", "y", "o", "u">>, <<"c", "a", "n", " ", "y", "o", "u">>, <<"s", "e", "n", "d">>}

AckWords ==
    {<<"t", "h", "a", "n", "k", "s">>, <<"t", "h", "a", "n", "k", " ", "y", "o", "u">>, <<"a", "c", "k", "n", "o", "w", "l", "e", "d", "g", "e">>}

\* The same checks with info_request tried before meeting_request.
intent_agent_info_first(email) ==
    The({IF AnyIn(InfoWords, text) THEN "info_request"
         ELSE IF AnyIn(MeetingWords, text) THEN "meeting_request"
         ELSE IF AnyIn(AckWords, text) THEN "acknowledgement"
         ELSE "general" :
            text \in {Lower(email.subject \o <<" ">> \o email.body)}})

intent_agent(email) ==
    The({IF AnyIn(MeetingWords, text) THEN "meeting_request"
         ELSE IF AnyIn(InfoWords, text) THEN "info_request"
         ELSE IF AnyIn(AckWords, text) THEN "acknowledgement"
         ELSE "general" :
            text \in {Lower(email.subject \o <<" ">> \o email.body)}})

\* The meeting plan with its first two steps in the other order.
PlanStepsEventFirst(intent) ==
    IF intent = "meeting_request" THEN <<"create_event", "extract_datetime", "draft_reply">>
    ELSE IF intent = "info_request" THEN <<"find_answer", "draft_reply">>
    ELSE IF intent = "acknowledgement" THEN <<"draft_ack">>
    ELSE <<"draft_general_reply">>

\* The info_request plan starting with the meeting plan's first step.
PlanStepsInfoExtracts(intent) ==
    IF intent = "meeting_request" THEN <<"extract_datetime", "create_event", "draft_reply">>
    ELSE IF intent = "info_request" THEN <<"extract_datetime", "find_answer", "draft_reply">>
    ELSE IF intent = "acknowledgement" THEN <<"draft_ack">>
    ELSE <<"draft_general_reply">>

PlanSteps(intent) ==
    IF intent = "meeting_request" THEN <<"extract_datetime", "create_event", "draft_reply">>
    ELSE IF intent = "info_request" THEN <<"find_answer", "draft_reply">>
    ELSE IF intent = "acknowledgement" THEN <<"draft_ack">>
    ELSE <<"draft_general_reply">>

planner_agent(email) ==
    The({[intent |-> intent, steps |-> PlanSteps(intent)] : intent \in {intent_agent(email)}})

Tomorrow == <<"t", "o", "m", "o", "r", "r", "o", "w">>

Today == <<"t", "o", "d", "a", "y">>

FourPmSpaced == <<"4", " ", "p", "m">>

FourPm == <<"4", "p", "m">>

\* The same checks with "today" tried before "tomorrow".
extract_datetime_agent_today_first(email, c) ==
    The({[datetime |->
            IF Contains(Today, text) THEN AtFourPm(now)
            ELSE IF Contains(Tomorrow, text) THEN AtFourPm(AddDays(now, 1))
            ELSE IF Contains(FourPmSpaced, text) \/ Contains(FourPm, text)
                 THEN AtFourPm(AddDays(now, 1))
            ELSE None] :
                text \in {Lower(email.body)}, now \in {DatetimeNow(c)}})

extract_datetime_agent(email, c) ==
    The({[datetime |->
            IF Contains(Tomorrow, text) THEN AtFourPm(AddDays(now, 1))
            ELSE IF Contains(Today, text) THEN AtFourPm(now)
            ELSE IF Contains(FourPmSpaced, text) \/ Contains(FourPm, text)
                 THEN AtFourPm(AddDays(now, 1))
            ELSE None] :
                text \in {Lower(email.body)}, now \in {DatetimeNow(c)}})

EvtPrefix == <<"e", "v", "t", "_">>

create_event_agent(event_info, c) ==
    Update([event_id |-> EvtPrefix \o Str(TimeSeconds(c)), status |-> "created"], event_info)

Greeting == <<"H", "i", " ">>

MeetingHead ==
    <<",", "\n", "\n", "T", "h", "a", "n", "k", "s", " ", EmDash, " ", "t", "h", "a", "t",
      " ", "w", "o", "r", "k", "s", " ", "f", "o", "r", " ", "m", "e", ".", " ", "I", "'",
      "v", "e", " ", "s", "c", "h", "e", "d", "u", "l", "e", "d", " ", "t", "h", "e", " ",
      "m", "e", "e", "t", "i", "n", "g", " ", "f", "o", "r", " ">>

MeetingTail ==
    <<".", "\n", "\n", "B", "e", "s", "t", ",", "\n", "S", "m", "a", "r", "t", "M", "a",
      "i", "l", "r">>

InfoBody ==
    <<",", "\n", "\n", "T", "h", "a", "n", "k", "s", " ", "f", "o", "r", " ", "r", "e",
      "a", "c", "h", "i", "n", "g", " ", "o", "u", "t", ".", " ", "I", " ", "w", "i", "l",
      "l", " ", "g", "a", "t", "h", "e", "r", " ", "t", "h", "e", " ", "i", "n", "f", "o",
      "r", "m", "a", "t", "i", "o", "n", " ", "a", "n", "d", " ", "s", "e", "n", "d", " ",
      "i", "t", " ", "s", "h", "o", "r", "t", "l", "y", ".", "\n", "\n", "B", "e", "s",
      "t", ",", "\n", "S", "m", "a", "r", "t", "M", "a", "i", "l", "r">>

AckBody ==
    <<",", "\n", "\n", "T", "h", "a", "n", "k", "s", " ", "f", "o", "r", " ", "t", "h",
      "e", " ", "u", "p", "d", "a", "t", "e", " ", EmDash, " ", "n", "o", "t", "e", "d",
      ".", "\n", "\n", "B", "e", "s", "t", ",", "\n", "S", "m", "a", "r", "t", "M", "a",
      "i", "l", "r">>

GeneralBody ==
    <<",", "\n", "\n", "T", "h", "a", "n", "k", "s", " ", "f", "o", "r", " ", "y", "o",
      "u", "r", " ", "m", "e", "s", "s", "a", "g", "e", ".", " ", "I", "'", "l", "l", " ",
      "g", "e", "t", " ", "b", "a", "c", "k", " ", "t", "o", " ", "y", "o", "u", " ", "s",
      "o", "o", "n", ".", "\n", "\n", "B", "e", "s", "t", ",", "\n", "S", "m", "a", "r",
      "t", "M", "a", "i", "l", "r">>

ATime == <<"a", " ", "t", "i", "m", "e">>

\* The meeting template with the fallback phrase used for every datetime.
reply_generator_agent_no_time(email, p, ctx) ==
    The({IF p.intent = "meeting_request"
         THEN Greeting \o name \o MeetingHead \o ATime \o MeetingTail
         ELSE IF p.intent = "info_request" THEN Greeting \o name \o InfoBody
         ELSE IF p.intent = "acknowledgement" THEN Greeting \o name \o AckBody
         ELSE Greeting \o name \o GeneralBody :
            name \in {LocalPart(email.sender)}})

reply_generator_agent(email, p, ctx) ==
    The({IF p.intent = "meeting_request"
         THEN Greeting \o name \o MeetingHead
                \o (IF dt # None THEN Strftime(dt) ELSE ATime) \o MeetingTail
         ELSE IF p.intent = "info_request" THEN Greeting \o name \o InfoBody
         ELSE IF p.intent = "acknowledgement" THEN Greeting \o name \o AckBody
         ELSE Greeting \o name \o GeneralBody :
            name \in {LocalPart(email.sender)}, dt \in {Get(ctx, "datetime")}})

Signature ==
    <<"B", "e", "s", "t", ",", "\n", "S", "m", "a", "r", "t", "M", "a", "i", "l", "r">>

SignatureSuffix ==
    <<"\n", "\n", "B", "e", "s", "t", ",", "\n", "S", "m", "a", "r", "t", "M", "a", "i",
      "l", "r">>

NotBlank(line) == Strip(line) # <<>>

StripAll(lines) == [i \in 1..Len(lines) |-> Strip(lines[i])]

\* [line.strip() for line in text.splitlines() if line.strip()]
TidyLines(text) ==
    The({StripAll(kept) : kept \in {SelectSeq(lines, NotBlank) : lines \in {SplitLines(text)}}})

\* The closing appended unless the text has it.
WithClosing(txt) == IF ~Contains(Signature, txt) THEN txt \o SignatureSuffix ELSE txt

\* The closing appended whether or not it is there already.
qa_agent_always_signs(text) ==
    The({Join(<<"\n">>, lines) : lines \in {TidyLines(text)}}) \o SignatureSuffix

qa_agent(text) ==
    The({WithClosing(txt) : txt \in {Join(<<"\n">>, lines) : lines \in {TidyLines(text)}}})

-----------------------------------------------------------------------------
(* The messages and the clock.                                             *)

\* mock_inbox, and further messages: a meeting request with no temporal cue,
\* one with "today" whose sender's local part is "a time", a message with no
\* keyword at all, and an acknowledgement in capitals with U+212A KELVIN SIGN
\* for its K whose sender's local part holds a form feed.
Emails ==
    << [id |-> 1,
        sender |->
            <<"a", "l", "i", "c", "e", "@", "e", "x", "a", "m", "p", "l", "e", ".", "c",
              "o", "m">>,
        subject |->
            <<"M", "e", "e", "t", "i", "n", "g", "?">>,
        body |->
            <<"H", "i", ",", " ", "c", "a", "n", " ", "w", "e", " ", "m", "e", "e", "t",
              " ", "t", "o", "m", "o", "r", "r", "o", "w", " ", "a", "t", " ", "4", " ",
              "P", "M", " ", "t", "o", " ", "d", "i", "s", "c", "u", "s", "s", " ", "t",
              "h", "e", " ", "d", "a", "t", "a", "s", "e", "t", "?">>],
       [id |-> 2,
        sender |->
            <<"b", "o", "b", "@", "e", "x", "a", "m", "p", "l", "e", ".", "c", "o", "m">>,
        subject |->
            <<"R", "e", "q", "u", "e", "s", "t", ":", " ", "d", "o", "c", "s">>,
        body |->
            <<"C", "o", "u", "l", "d", " ", "y", "o", "u", " ", "s", "e", "n", "d", " ",
              "t", "h", "e", " ", "l", "a", "t", "e", "s", "t", " ", "r", "e", "p", "o",
              "r", "t", " ", "p", "l", "e", "a", "s", "e", "?">>],
       [id |-> 3,
        sender |->
            <<"c", "a", "r", "o", "l", "@", "e", "x", "a", "m", "p", "l", "e", ".", "c",
              "o", "m">>,
        subject |->
            <<"T", "h", "a", "n", "k", "s">>,
        body |->
            <<"T", "h", "a", "n", "k", "s", " ", "f", "o", "r", " ", "t", "h", "e", " ",
              "u", "p", "d", "a", "t", "e", "!">>],
       [id |-> 4,
        sender |->
            <<"e", "r", "i", "n", "@", "e", "x", "a", "m", "p", "l", "e", ".", "c", "o", "m">>,
        subject |->
            <<"S", "y", "n", "c">>,
        body |->
            <<"L", "e", "t", " ", "u", "s", " ", "s", "c", "h", "e", "d", "u", "l", "e",
              " ", "i", "t", ".">>],
       [id |-> 5,
        sender |->
            <<"a", " ", "t", "i", "m", "e", "@", "e", "x", "a", "m", "p", "l", "e", ".",
              "c", "o", "m">>,
        subject |->
            <<"T", "o", "d", "a", "y">>,
        body |->
            <<"A", " ", "c", "a", "l", "l", " ", "t", "o", "d", "a", "y", "?">>],
       [id |-> 6,
        sender |->
            <<"d", "a", "v", "e", "@", "e", "x", "a", "m", "p", "l", "e", ".", "c", "o", "m">>,
        subject |->
            <<"H", "e", "l", "l", "o">>,
        body |->
            <<"J", "u", "s", "t", " ", "c", "h", "e", "c", "k", "i", "n", "g", " ", "i",
              "n", ".">>],
       [id |-> 7,
        sender |->
            <<"f", "r", "a", "n", "\f", "k", "@", "e", "x", "a", "m", "p", "l", "e", ".",
              "c", "o", "m">>,
        subject |->
            <<"R", "e", ":", " ", "u", "p", "d", "a", "t", "e">>,
        body |->
            <<"T", "H", "A", "N", "U+212A", "S", "!">>] >>

Msgs == 1..MaxMsgs

EmailOf(m) == Emails[inbox[m]]

\* 2024-02-28 15:59:59.250000 and 2024-12-30 23:59:59.750000
StartClocks == {[sec |-> 1709135999, micro |-> 250000], [sec |-> 1735603199, micro |-> 750000]}

\* Twelve hours and half a second.
ClockSteps == {[sec |-> 43200, micro |-> 500000]}

Advance(c, d) ==
    LET us == c.micro + d.micro IN
    [sec |-> c.sec + d.sec + us \div 1000000, micro |-> us % 1000000]

RECURSIVE ClocksWithin(_)
ClocksWithin(n) ==
    IF n = 0 THEN StartClocks
    ELSE LET prev == ClocksWithin(n - 1) IN
         prev \cup {Advance(c, d) : c \in prev, d \in ClockSteps}

Phases ==
    <<"Received", "Classified", "Planned", "StepsExecuted", "ReplyDrafted", "QAFinalized",
      "Completed">>

Rank(phase) == CHOOSE i \in 1..Len(Phases) : Phases[i] = phase

NoProbe == [fn |-> "none"]

\* The demo loop takes the emails in the order of the dataset, from any of them
\* on; the requests handled at the same time are meeting requests, with and
\* without a temporal cue.
Inboxes(md) ==
    IF md = "loop"
    THEN {[m \in Msgs |-> ((m - 1 + r) % Len(Emails)) + 1] : r \in 0..(Len(Emails) - 1)}
    ELSE [Msgs -> {1, 4}]

InitPipe(md) ==
    /\ mode = md
    /\ clock \in StartClocks
    /\ ticks = 0
    /\ inbox \in Inboxes(md)
    /\ pc = [m \in Msgs |-> "Received"]
    /\ plan = [m \in Msgs |-> None]
    /\ stepIdx = [m \in Msgs |-> 0]
    /\ context = [c \in Msgs |-> EmptyDict]
    /\ actions = [m \in Msgs |-> EmptyDict]
    /\ reply = [m \in Msgs |-> <<>>]
    /\ results = <<>>
    /\ probe = NoProbe

-----------------------------------------------------------------------------
(* Processing one message: planner_agent, then action_executor.            *)

\* One Context for all messages.
ContextOfShared(m) == 1

\* `context = {}`: the Context object message m is processed with.
ContextOf(m) == m

\* The threads that run the /process handler.
Pool == {"t1", "t2"}

InProgress == {k \in Msgs : pc[k] \notin {"Received", "Completed"}}

\* `for email in mock_inbox`: a message is taken up when the ones before it are
\* done.  Requests to /process are taken up in the order they came in, each when a
\* thread of the pool is free.
Scheduled(m) ==
    IF mode = "loop" THEN \A k \in Msgs : k < m => pc[k] = "Completed"
    ELSE \/ m \in InProgress
         \/ /\ Cardinality(InProgress) < Cardinality(Pool)
            /\ \A k \in Msgs : k < m => pc[k] # "Received"

Tick ==
    /\ ticks < MaxTicks
    /\ \E d \in ClockSteps : clock' = Advance(clock, d)
    /\ ticks' = ticks + 1
    /\ UNCHANGED <<inbox, pc, plan, stepIdx, context, actions, reply, results, mode, probe>>

Classify(m) ==
    /\ Scheduled(m)
    /\ pc[m] = "Received"
    /\ plan' = [plan EXCEPT ![m] = [intent |-> intent_agent(EmailOf(m)), steps |-> <<>>]]
    /\ pc' = [pc EXCEPT ![m] = "Classified"]
    /\ UNCHANGED <<clock, ticks, inbox, stepIdx, context, actions, reply, results, mode, probe>>

MakePlan(m) ==
    /\ Scheduled(m)
    /\ pc[m] = "Classified"
    /\ plan' = [plan EXCEPT ![m] = [intent |-> plan[m].intent,
                                    steps |-> PlanSteps(plan[m].intent)]]
    /\ stepIdx' = [stepIdx EXCEPT ![m] = 1]
    /\ actions' = [actions EXCEPT ![m] = EmptyDict]
    /\ pc' = [pc EXCEPT ![m] = "Planned"]
    /\ UNCHANGED <<clock, ticks, inbox, context, reply, results, mode, probe>>

CurrentStep(m) == plan[m].steps[stepIdx[m]]

InLoop(m) == pc[m] = "Planned" /\ stepIdx[m] <= Len(plan[m].steps)

\* The loop goes on to its next step, or ends after the last one.
NextStep(m) ==
    /\ stepIdx' = [stepIdx EXCEPT ![m] = stepIdx[m] + 1]
    /\ pc' = [pc EXCEPT ![m] = IF stepIdx[m] = Len(plan[m].steps) THEN "StepsExecuted"
                                ELSE "Planned"]

StepExtractDatetime(m) ==
    /\ Scheduled(m)
    /\ InLoop(m)
    /\ CurrentStep(m) = "extract_datetime"
    /\ \E dt \in {extract_datetime_agent(EmailOf(m), clock)} :
        /\ context' = [context EXCEPT ![ContextOf(m)] = Update(context[ContextOf(m)], dt)]
        /\ actions' = [actions EXCEPT ![m] = Update(actions[m], [extract_datetime |-> dt])]
    /\ NextStep(m)
    /\ UNCHANGED <<clock, ticks, inbox, plan, reply, results, mode, probe>>

MeetingWith == <<"M", "e", "e", "t", "i", "n", "g", " ", "w", "i", "t", "h", " ">>

StepCreateEvent(m) ==
    /\ Scheduled(m)
    /\ InLoop(m)
    /\ CurrentStep(m) = "create_event"
    /\ \E event \in {create_event_agent(
                        [summary |-> MeetingWith \o EmailOf(m).sender,
                         datetime |-> Get(context[ContextOf(m)], "datetime")], clock)} :
           actions' = [actions EXCEPT ![m] = Update(actions[m], [create_event |-> event])]
    /\ NextStep(m)
    /\ UNCHANGED <<clock, ticks, inbox, plan, context, reply, results, mode, probe>>

\* s.startswith(prefix), for the names of the plan steps
StartsWith(s, prefix) == Len(s) >= Len(prefix) /\ SubSeq(s, 1, Len(prefix)) = prefix

\* step.startswith("draft") or step == "find_answer"
Placeholder(step) == StartsWith(step, "draft") \/ step = "find_answer"

\* The step changes nothing: it takes the placeholder branch (`pass`), or it is
\* neither extract_datetime nor create_event and no branch of the chain matches.
NoAction(step) == Placeholder(step) \/ step \notin {"extract_datetime", "create_event"}

StepPlaceholder(m) ==
    /\ Scheduled(m)
    /\ InLoop(m)
    /\ NoAction(CurrentStep(m))
    /\ NextStep(m)
    /\ UNCHANGED <<clock, ticks, inbox, plan, context, actions, reply, results, mode, probe>>

DraftReply(m) ==
    /\ Scheduled(m)
    /\ pc[m] = "StepsExecuted"
    /\ reply' = [reply EXCEPT ![m] =
                    reply_generator_agent(EmailOf(m), plan[m], context[ContextOf(m)])]
    /\ pc' = [pc EXCEPT ![m] = "ReplyDrafted"]
    /\ UNCHANGED <<clock, ticks, inbox, plan, stepIdx, context, actions, results, mode, probe>>

QAFinalize(m) ==
    /\ Scheduled(m)
    /\ pc[m] = "ReplyDrafted"
    /\ \E final \in {qa_agent(reply[m])} :
        /\ reply' = [reply EXCEPT ![m] = final]
        /\ actions' = [actions EXCEPT ![m] = Update(actions[m], [reply |-> final])]
    /\ pc' = [pc EXCEPT ![m] = "QAFinalized"]
    /\ UNCHANGED <<clock, ticks, inbox, plan, stepIdx, context, results, mode, probe>>

\* `sent` set only when a datetime was found.
SendIfScheduled(m) ==
    /\ Scheduled(m)
    /\ pc[m] = "QAFinalized"
    /\ actions' = [actions EXCEPT ![m] =
                      Update(actions[m],
                             [sent |-> ("extract_datetime" \in DOMAIN actions[m]
                                            => actions[m]["extract_datetime"].datetime # None)])]
    /\ results' = Append(results, m)
    /\ pc' = [pc EXCEPT ![m] = "Completed"]
    /\ UNCHANGED <<clock, ticks, inbox, plan, stepIdx, context, reply, mode, probe>>

Send(m) ==
    /\ Scheduled(m)
    /\ pc[m] = "QAFinalized"
    /\ actions' = [actions EXCEPT ![m] = Update(actions[m], [sent |-> TRUE])]
    /\ results' = Append(results, m)
    /\ pc' = [pc EXCEPT ![m] = "Completed"]
    /\ UNCHANGED <<clock, ticks, inbox, plan, stepIdx, context, reply, mode, probe>>

Next ==
    \/ Tick
    \/ \E m \in Msgs :
        \/ Classify(m)
        \/ MakePlan(m)
        \/ StepExtractDatetime(m)
        \/ StepCreateEvent(m)
        \/ StepPlaceholder(m)
        \/ DraftReply(m)
        \/ QAFinalize(m)
        \/ Send(m)

\* The demo loop over the inbox.
Spec == InitPipe("loop") /\ [][Next]_vars

\* The loop runs on: the message whose turn it is gets its next step.
FairSpec == Spec /\ WF_vars(Next)

\* Requests to /process handled at the same time, their steps interleaved.
SpecPar == InitPipe("parallel") /\ [][Next]_vars

-----------------------------------------------------------------------------
(* Single calls of the pure agents, on texts put together from fragments.  *)

RECURSIVE FragTexts(_, _)
\* The texts made of at most n of the fragments.
FragTexts(frags, n) ==
    IF n = 0 THEN {<<>>}
    ELSE LET shorter == FragTexts(frags, n - 1) IN
         shorter \cup {t \o f : t \in shorter, f \in frags}

\* No message is being processed.
IdlePipe ==
    /\ mode = "probe"
    /\ clock = CHOOSE c \in StartClocks : TRUE
    /\ ticks = 0
    /\ inbox = <<>>
    /\ pc = <<>>
    /\ plan = <<>>
    /\ stepIdx = <<>>
    /\ context = <<>>
    /\ actions = <<>>
    /\ reply = <<>>
    /\ results = <<>>

pipeVars == <<clock, ticks, inbox, pc, plan, stepIdx, context, actions, reply, results, mode>>

QAFrags ==
    {<<"a">>, <<" ">>, <<"\n">>, <<"\r">>, <<"\f">>, <<"U+00A0">>, <<"B", "e", "s", "t", ",">>, <<"S", "m", "a", "r", "t", "M", "a", "i", "l", "r">>,
     <<"B", "e", "s", "t", ",", "\n", "S", "m", "a", "r", "t", "M", "a", "i", "l", "r">>}

\* What reply_generator_agent returns for the messages, with and without a datetime.
GeneratedReplies ==
    {reply_generator_agent(Emails[i], planner_agent(Emails[i]), ctx) :
        i \in 1..Len(Emails),
        ctx \in {EmptyDict} \cup {extract_datetime_agent(Emails[1], c) : c \in StartClocks}}

QATexts == FragTexts(QAFrags, MaxQAFrags) \cup GeneratedReplies

InitQA ==
    /\ IdlePipe
    /\ probe \in {[fn |-> "qa", text |-> t, calls |-> 0, out1 |-> <<>>, out2 |-> <<>>] :
                    t \in QATexts}

\* qa_agent(text)
QAOnce ==
    /\ probe.fn = "qa"
    /\ probe.calls = 0
    /\ probe' = [probe EXCEPT !.calls = 1, !.out1 = qa_agent(probe.text)]
    /\ UNCHANGED pipeVars

\* qa_agent(qa_agent(text))
QATwice ==
    /\ probe.fn = "qa"
    /\ probe.calls = 1
    /\ probe' = [probe EXCEPT !.calls = 2, !.out2 = qa_agent(probe.out1)]
    /\ UNCHANGED pipeVars

NextQA == QAOnce \/ QATwice

SpecQA == InitQA /\ [][NextQA]_vars

IntentFrags ==
    {<<"M", "E", "E", "T">>, <<"M", "e", "e", "t", "i", "n", "g">>, <<"s", "c", "h", "e", "d", "u", "l", "e">>, <<"C", "a", "l", "l">>,
     <<"p", "l", "e", "a", "s", "e">>, <<"C", "o", "u", "l", "d", " ", "y", "o", "u">>, <<"c", "a", "n", " ", "y", "o", "u">>, <<"S", "e", "n", "d">>,
     <<"T", "h", "a", "n", "k", "s">>, <<"t", "h", "a", "n", "k", " ", "y", "o", "u">>, <<"A", "c", "k", "n", "o", "w", "l", "e", "d", "g", "e">>,
     <<"c", "o", "u", "l", "d">>, <<"y", "o", "u">>, <<" ">>, <<"h", "e", "y">>, <<"T", "H", "A", "N", "U+212A", "S">>}

ProbeSender == <<"p", "a", "t", "@", "e", "x", "a", "m", "p", "l", "e", ".", "c", "o", "m">>

InitIntent ==
    /\ IdlePipe
    /\ probe \in {[fn |-> "intent",
                   email |-> [id |-> 0, sender |-> ProbeSender, subject |-> s, body |-> b],
                   calls |-> 0, out |-> ""] :
                    s \in FragTexts(IntentFrags, 1), b \in FragTexts(IntentFrags, MaxBodyFrags)}

\* intent_agent(email)
IntentCall ==
    /\ probe.fn = "intent"
    /\ probe.calls = 0
    /\ probe' = [probe EXCEPT !.calls = 1, !.out = intent_agent(probe.email)]
    /\ UNCHANGED pipeVars

NextIntent == IntentCall

SpecIntent == InitIntent /\ [][NextIntent]_vars

CueFrags ==
    {<<"T", "o", "m", "o", "r", "r", "o", "w">>, <<"T", "O", "D", "A", "Y">>, <<"4", " ", "P", "M">>, <<"4", "p", "m">>, <<"4">>, <<"p", "m">>, <<" ">>, <<"a", "t">>}

InitDT ==
    /\ IdlePipe
    /\ probe \in {[fn |-> "extract_datetime",
                   email |-> [id |-> 0, sender |-> ProbeSender, subject |-> s, body |-> b],
                   now |-> c, calls |-> 0, out |-> EmptyDict] :
                    s \in {<<>>, Tomorrow}, b \in FragTexts(CueFrags, MaxCueFrags),
                    c \in ClocksWithin(MaxTicks)}

\* extract_datetime_agent(email), called when the clock shows probe.now
ExtractCall ==
    /\ probe.fn = "extract_datetime"
    /\ probe.calls = 0
    /\ probe' = [probe EXCEPT !.calls = 1,
                              !.out = extract_datetime_agent(probe.email, probe.now)]
    /\ UNCHANGED pipeVars

NextDT == ExtractCall

SpecDT == InitDT /\ [][NextDT]_vars

-----------------------------------------------------------------------------
(* The properties.                                                         *)

Done(m) == pc[m] = "Completed"

Intent(m) == plan[m].intent

\* The datetime message m's own extract_datetime step recorded, as a Context.
OwnContext(m) ==
    IF "extract_datetime" \in DOMAIN actions[m] THEN actions[m]["extract_datetime"]
    ELSE EmptyDict

\* C1: qa_agent is idempotent: qa_agent(qa_agent(x)) = qa_agent(x) for every
\* reply text x, also one that does not contain the closing signature.
QAIdempotent ==
    (probe.fn = "qa" /\ probe.calls = 2) => probe.out2 = probe.out1

\* C2: within one run, every invocation of create_event_agent returns an
\* event_id different from that of every other invocation, whatever time
\* (also none) passes between them.
EventIdsUnique ==
    \A m1, m2 \in Msgs :
        (/\ m1 # m2
         /\ "create_event" \in DOMAIN actions[m1]
         /\ "create_event" \in DOMAIN actions[m2])
        => actions[m1]["create_event"].event_id # actions[m2]["create_event"].event_id

\* C3: create_event never executes before extract_datetime for the same
\* message: when create_event is the step to run, and whenever it has run,
\* extract_datetime has run and has written `datetime` into the message's Context.
ExtractBeforeCreate ==
    \A m \in Msgs :
        (\/ "create_event" \in DOMAIN actions[m]
         \/ (InLoop(m) /\ CurrentStep(m) = "create_event"))
        => /\ "extract_datetime" \in DOMAIN actions[m]
           /\ "datetime" \in DOMAIN context[ContextOf(m)]

\* C3 witness: create_event has run for a message.
EventCreated ==
    \E m \in Msgs : "create_event" \in DOMAIN actions[m] /\ pc[m] = "Planned"

\* C4: every message goes through Received, Classified, Planned, StepsExecuted,
\* ReplyDrafted, QAFinalized, Completed in this order, one phase at a time and
\* never back, and ends Completed with a reply and sent = true, whatever its
\* intent and whether or not a datetime was found.
LifecycleCompletes ==
    /\ [][\A m \in Msgs : pc'[m] # pc[m] => Rank(pc'[m]) = Rank(pc[m]) + 1]_vars
    /\ [](\A m \in Msgs : \E i \in 1..Len(Phases) : pc[m] = Phases[i])
    /\ \A m \in Msgs :
        <>[](/\ Done(m)
             /\ "reply" \in DOMAIN actions[m]
             /\ "sent" \in DOMAIN actions[m]
             /\ actions[m]["sent"] = TRUE)

\* C4 witness: all messages are Completed and sent, one of them a meeting
\* request for which no datetime was found.
AllCompletedOneUnscheduled ==
    /\ \A m \in Msgs : Done(m) /\ actions[m]["sent"] = TRUE
    /\ \E m \in Msgs :
        /\ Intent(m) = "meeting_request"
        /\ actions[m]["extract_datetime"].datetime = None

Categories == <<"meeting_request", "info_request", "acknowledgement">>

WordsOf(category) ==
    IF category = "meeting_request" THEN MeetingWords
    ELSE IF category = "info_request" THEN InfoWords
    ELSE AckWords

\* The categories that have a keyword in the lowercased subject + " " + body.
Present(email) ==
    {i \in 1..Len(Categories) :
        \E w \in WordsOf(Categories[i]) :
            Contains(w, Lower(email.subject \o <<" ">> \o email.body))}

\* C5: intent_agent returns the earliest category, in the order meeting_request,
\* info_request, acknowledgement, that has a keyword in subject and body, and
\* `general` exactly when no category has one.
IntentPrecedence ==
    (probe.fn = "intent" /\ probe.calls = 1) =>
        LET present == Present(probe.email) IN
        /\ probe.out = "general" <=> present = {}
        /\ present # {} =>
            \E i \in present : probe.out = Categories[i] /\ \A j \in present : i <= j

\* C5 witness: a text with keywords of all three categories was classified.
AllCategoriesClassified ==
    /\ probe.fn = "intent"
    /\ probe.calls = 1
    /\ Present(probe.email) = {1, 2, 3}
    /\ probe.out = "meeting_request"

\* A text with no blank line, no line that starts or ends with whitespace, and
\* no line boundary but "\n".
Tidy(t) ==
    /\ t # <<>>
    /\ t[1] \notin WhiteSpace
    /\ t[Len(t)] \notin WhiteSpace
    /\ \A i \in 1..Len(t) :
        t[i] \in LineBreaks =>
            /\ t[i] = "\n"
            /\ t[i - 1] \notin WhiteSpace
            /\ t[i + 1] \notin WhiteSpace

\* How often `sub` occurs in t.
Count(sub, t) ==
    Cardinality({i \in 0..(Len(t) - Len(sub)) : \A j \in 1..Len(sub) : t[i + j] = sub[j]})

NotLineBreak(c) == c \notin LineBreaks

SignatureName == <<"S", "m", "a", "r", "t", "M", "a", "i", "l", "r">>

\* C6, as claimed: qa_agent returns a reply text that already ends in the
\* closing signature unchanged, in particular every reply of reply_generator_agent.
QAKeepsSignedReply ==
    (probe.fn = "qa" /\ probe.calls >= 1 /\ EndsWith(probe.text, Signature))
        => probe.out1 = probe.text

\* C6, amended: for a reply text that already ends in the closing signature,
\* qa_agent appends no second signature: the result ends in the signature and
\* names SmartMailr as often as the text did; it is the text unchanged exactly
\* when the text is tidy (no blank line, no whitespace around a line, "\n" the only
\* line boundary).  A reply of reply_generator_agent has blank lines, and
\* qa_agent returns it without them and otherwise as it was.
QATidiesSignedReply ==
    (probe.fn = "qa" /\ probe.calls >= 1 /\ EndsWith(probe.text, Signature)) =>
        /\ EndsWith(probe.out1, Signature)
        /\ Count(SignatureName, probe.out1) = Count(SignatureName, probe.text)
        /\ probe.out1 = probe.text <=> Tidy(probe.text)
        /\ probe.text \in GeneratedReplies =>
            /\ probe.out1 # probe.text
            /\ ~Contains(<<"\n", "\n">>, probe.out1)
            /\ SelectSeq(probe.out1, NotLineBreak) = SelectSeq(probe.text, NotLineBreak)

\* C6 witness: qa_agent was applied to a reply of reply_generator_agent.
GeneratedReplyTidied ==
    /\ probe.fn = "qa"
    /\ probe.calls = 1
    /\ probe.text \in GeneratedReplies
    /\ EndsWith(probe.text, Signature)
    /\ Len(probe.out1) < Len(probe.text)

\* C7: messages processed at the same time share no Context: the Context of a
\* message holds what the message's own extract_datetime step wrote and nothing
\* else (it is empty before), and the message's event and reply are the ones
\* built from its own datetime, as when it is processed alone.
ContextIsolation ==
    /\ \A m1, m2 \in Msgs : m1 # m2 => ContextOf(m1) # ContextOf(m2)
    /\ \A m \in Msgs :
        /\ context[ContextOf(m)] = OwnContext(m)
        /\ "create_event" \in DOMAIN actions[m] =>
            /\ "extract_datetime" \in DOMAIN actions[m]
            /\ actions[m]["create_event"].datetime = actions[m]["extract_datetime"].datetime
        /\ pc[m] = "ReplyDrafted" =>
            reply[m] = reply_generator_agent(EmailOf(m), plan[m], OwnContext(m))
        /\ pc[m] \in {"QAFinalized", "Completed"} =>
            actions[m]["reply"] =
                qa_agent(reply_generator_agent(EmailOf(m), plan[m], OwnContext(m)))

\* C7 witness: two messages are between their extract_datetime and create_event
\* steps at the same time, with different datetimes in their Contexts.
TwoContextsInFlight ==
    \E m1, m2 \in Msgs :
        /\ m1 # m2
        /\ InLoop(m1) /\ CurrentStep(m1) = "create_event"
        /\ InLoop(m2) /\ CurrentStep(m2) = "create_event"
        /\ context[ContextOf(m1)] # context[ContextOf(m2)]

Executable == {"extract_datetime", "create_event"}

\* The steps of message m's plan that the executor's loop has gone through.
StepsDone(m) ==
    IF pc[m] \in {"Received", "Classified"} THEN {}
    ELSE {plan[m].steps[i] : i \in 1..(stepIdx[m] - 1)}

\* C8: the step-output keys of the actions are exactly the executable steps of
\* the plan that have run: extract_datetime and create_event (with an event_id)
\* for a meeting_request, none for the other intents, whose result holds only
\* `reply` and `sent` and no datetime; a placeholder step adds no key and leaves
\* the Context as it is.
ResultKeys ==
    /\ [](\A m \in Msgs :
            /\ DOMAIN actions[m] \cap Executable = StepsDone(m) \cap Executable
            /\ Done(m) =>
                /\ Intent(m) = "meeting_request" =>
                    /\ DOMAIN actions[m] = {"extract_datetime", "create_event", "reply", "sent"}
                    /\ "event_id" \in DOMAIN actions[m]["create_event"]
                /\ Intent(m) # "meeting_request" =>
                    /\ DOMAIN actions[m] = {"reply", "sent"}
                    /\ context[ContextOf(m)] = EmptyDict)
    /\ [][\A m \in Msgs :
            (InLoop(m) /\ Placeholder(CurrentStep(m)) /\ stepIdx'[m] # stepIdx[m])
            => (actions' = actions /\ context' = context)]_vars

\* C8 witness: an info_request, whose plan has placeholder steps only, is Completed.
InfoRequestCompleted ==
    \E m \in Msgs :
        /\ Done(m)
        /\ Intent(m) = "info_request"
        /\ DOMAIN actions[m] = {"reply", "sent"}

HasCue(email) ==
    LET text == Lower(email.body) IN
    \/ Contains(Tomorrow, text)
    \/ Contains(Today, text)
    \/ Contains(FourPmSpaced, text)
    \/ Contains(FourPm, text)

\* A meeting request with no temporal cue runs to the end as any other.
NoCueFlows(m) ==
    (Done(m) /\ Intent(m) = "meeting_request" /\ ~HasCue(EmailOf(m))) =>
        /\ actions[m]["extract_datetime"].datetime = None
        /\ actions[m]["create_event"].status = "created"
        /\ actions[m]["create_event"].datetime = None
        /\ Contains(ATime, actions[m]["reply"])
        /\ actions[m]["sent"] = TRUE

ATimeOnlyWhenNone(m) ==
    (Done(m) /\ Contains(ATime, actions[m]["reply"]))
        => Get(context[ContextOf(m)], "datetime") = None

\* C9, as claimed: for a meeting_request with no temporal cue the datetime is
\* None, the event is created with datetime None, the reply contains "a time" and
\* sent = true; and a reply contains "a time" only when the datetime is None.
UnmatchedDatetimeIffATime ==
    \A m \in Msgs : NoCueFlows(m) /\ ATimeOnlyWhenNone(m)

\* C9, amended: the same, the converse for the messages whose sender's local
\* part does not itself contain "a time" (the reply greets the sender by it).
UnmatchedDatetimeATime ==
    \A m \in Msgs :
        /\ NoCueFlows(m)
        /\ ~Contains(ATime, LocalPart(EmailOf(m).sender)) => ATimeOnlyWhenNone(m)

\* C9 witness: a meeting request with no temporal cue is Completed, "a time" in
\* its reply.
UnscheduledMeetingCompleted ==
    \E m \in Msgs :
        /\ Done(m)
        /\ Intent(m) = "meeting_request"
        /\ ~HasCue(EmailOf(m))
        /\ Contains(ATime, actions[m]["reply"])

LeapYear(y) == y % 4 = 0 /\ (y % 100 # 0 \/ y % 400 = 0)

DaysIn(y, m) ==
    IF m = 2 THEN (IF LeapYear(y) THEN 29 ELSE 28)
    ELSE IF m \in {4, 6, 9, 11} THEN 30
    ELSE 31

\* The calendar date after the date of dt.
DayAfter(dt) ==
    IF dt.day < DaysIn(dt.year, dt.month)
    THEN [year |-> dt.year, month |-> dt.month, day |-> dt.day + 1]
    ELSE IF dt.month < 12 THEN [year |-> dt.year, month |-> dt.month + 1, day |-> 1]
    ELSE [year |-> dt.year + 1, month |-> 1, day |-> 1]

SameDay(dt) == [year |-> dt.year, month |-> dt.month, day |-> dt.day]

\* 16:00:00.000000 on the date.
FourPmOn(date) ==
    [year |-> date.year, month |-> date.month, day |-> date.day,
     hour |-> 16, minute |-> 0, second |-> 0, microsecond |-> 0]

\* C10: extract_datetime_agent resolves the cues of the lowercased body by
\* precedence: "tomorrow" gives the day after the reference date, else "today"
\* the reference date, else "4 pm" or "4pm" the day after, else None; every
\* datetime it gives is at 16:00:00.000000.
CuePrecedence ==
    (probe.fn = "extract_datetime" /\ probe.calls = 1) =>
        LET text == Lower(probe.email.body)
            now  == DatetimeNow(probe.now)
        IN  /\ DOMAIN probe.out = {"datetime"}
            /\ probe.out.datetime =
                IF Contains(Tomorrow, text) THEN FourPmOn(DayAfter(now))
                ELSE IF Contains(Today, text) THEN FourPmOn(SameDay(now))
                ELSE IF Contains(FourPmSpaced, text) \/ Contains(FourPm, text)
                     THEN FourPmOn(DayAfter(now))
                ELSE None

\* C10 witness: a body with both "tomorrow" and "today" was resolved, on the
\* last day of a month.
BothCuesResolved ==
    /\ probe.fn = "extract_datetime"
    /\ probe.calls = 1
    /\ Contains(Tomorrow, Lower(probe.email.body))
    /\ Contains(Today, Lower(probe.email.body))
    /\ probe.out.datetime.day = 1

=============================================================================
